---- MODULE Spec2Model ----
(***************************************************************************)
(* The Rosenbrock objectives of argmin-exploring (Rosenbrock,              *)
(* RosenbrockVec, RosenbrockND and the negated-cost Rosenbrock of          *)
(* bin/01-rosenbrock.rs) and the annealing operator RosenbrockND::anneal   *)
(* with its Arc<Mutex<Xoshiro256PlusPlus>> generator.                      *)
(*                                                                         *)
(* Numbers.  f64 values are modelled by integers.  The arguments of cost,  *)
(* gradient and hessian are whole numbers, on which the f64 arithmetic of  *)
(* the formulas is exact.  The numbers anneal works on (param, the bounds, *)
(* the sampled delta and temp) are counted in tenths, so that the sampled  *)
(* delta of [-0.1, 0.1] is one of -1, 0, 1 and temp 9.5 is 95.             *)
(***************************************************************************)
EXTENDS Integers, Sequences, FiniteSets, TLC

\* ------------------------------------------------------------------ bounds
\* Threads holding a reference to the one shared RosenbrockND.
NumThreads == 2
\* Calls the threads make on the shared objective, all together.
MaxCalls == 2

\* Elements of the longest flat buffer handed to the Hessian's construction.
MaxBuffer == 5

\* RosenbrockND values a program holds, constructed or cloned.
MaxInstances == 3
\* Draws made from one generator.
MaxDraws == 6

\* The largest finite temp of the step counts, in tenths.
MaxTemp == 30

Threads == 1..NumThreads

\* ------------------------------------------------------ values and results
\* One tenth is the unit of anneal's numbers: 1.0 is Tenths.
Tenths == 10

\* Result<_, argmin::core::Error> values, and a call that unwinds instead of
\* returning.
Ok(v) == [kind |-> "Ok", val |-> v]
Err(e) == [kind |-> "Err", err |-> e]
Panic(why) == [kind |-> "panic", why |-> why]
\* A plain (non-Result) value a library function returns.
Val(v) == [kind |-> "val", val |-> v]
None == [kind |-> "None"]

\* Vec<f64> is a sequence (indices 1..n stand for 0..n-1 of the source).
\* Array1<f64> is a function on 0..n-1.
array(s) == [k \in 0..(Len(s) - 1) |-> s[k + 1]]
len(arr) == Cardinality(DOMAIN arr)
\* to_vec with the elements in the opposite order.
to_vec_reversed(arr) == [k \in 1..len(arr) |-> arr[len(arr) - k]]
\* Array1::to_vec: the elements in index order, as a Vec.
to_vec(arr) == [k \in 1..len(arr) |-> arr[k - 1]]
\* Array1::from_vec: the Vec's elements, as an array.
from_vec(v) == [k \in 0..(Len(v) - 1) |-> v[k + 1]]
\* Array2::from_shape_vec((rows, cols), v): row-major, or a ShapeError when the
\* buffer does not hold rows * cols elements.
from_shape_vec(rows, cols, v) ==
    IF Len(v) # rows * cols
    THEN Err("ShapeError")
    ELSE Ok([r \in 0..(rows - 1) |-> [c \in 0..(cols - 1) |-> v[r * cols + c + 1]]])

\* ------------------------------------------- argmin_testfunctions (library)
\* f(x, y) = (a - x)^2 + b (y - x^2)^2; the function takes exactly two
\* parameters and panics otherwise.
rosenbrock_2d(param, a, b) ==
    IF Len(param) # 2
    THEN Panic("rosenbrock function only accepts 2 parameters")
    ELSE LET x == param[1]
             y == param[2]
         IN Val((a - x)^2 + b * (y - x^2)^2)

\* The analytic gradient of f.
rosenbrock_2d_derivative(param, a, b) ==
    IF Len(param) # 2
    THEN Panic("rosenbrock function only accepts 2 parameters")
    ELSE LET x == param[1]
             y == param[2]
         IN Val(<< -2 * a + 4 * b * x^3 - 4 * b * x * y + 2 * x,
                   2 * b * (y - x^2) >>)

\* The analytic Hessian of f, as a flat buffer of four elements in row order.
rosenbrock_2d_hessian(param, a, b) ==
    IF Len(param) # 2
    THEN Panic("rosenbrock function only accepts 2 parameters")
    ELSE LET x == param[1]
             y == param[2]
         IN Val(<< 12 * b * x^2 - 4 * b * y + 2, -4 * b * x,
                   -4 * b * x, 2 * b >>)

\* The nested matrix with the elements of its second row exchanged.
nested_2x2_second_row_swapped(t) ==
    IF Len(t) < 4
    THEN Panic("index out of bounds")
    ELSE Ok(<< <<t[1], t[2]>>, <<t[4], t[3]>> >>)

\* vec![vec![t[0], t[1]], vec![t[2], t[3]]]: indexing the buffer panics when
\* it is too short.
nested_2x2(t) ==
    IF Len(t) < 4
    THEN Panic("index out of bounds")
    ELSE Ok(<< <<t[1], t[2]>>, <<t[3], t[4]>> >>)

\* --------------------------------------------------------- the objectives
\* An objective value: which struct it is, how it was constructed, a and b.
Rosenbrock_new(a, b) == [kind |-> "Rosenbrock", ctor |-> "new", a |-> a, b |-> b]
Rosenbrock_default == [Rosenbrock_new(1, 100) EXCEPT !.ctor = "default"]

RosenbrockVec_new(a, b) == [kind |-> "RosenbrockVec", ctor |-> "new", a |-> a, b |-> b]
RosenbrockVec_default == [RosenbrockVec_new(1, 100) EXCEPT !.ctor = "default"]

\* The struct of bin/01-rosenbrock.rs has no constructor but the derived
\* Default, which zeroes both fields.
Maximize_default == [kind |-> "Maximize", ctor |-> "default", a |-> 0, b |-> 0]

\* RosenbrockND::new keeps its four arguments as they are.
RosenbrockND_new(a, b, lower_bound, upper_bound) ==
    [kind |-> "RosenbrockND", ctor |-> "new", a |-> a, b |-> b,
     lower_bound |-> lower_bound, upper_bound |-> upper_bound]
RosenbrockND_default ==
    [RosenbrockND_new(1, 100, array(<<-5 * Tenths, -5 * Tenths>>),
                      array(<<5 * Tenths, 5 * Tenths>>))
     EXCEPT !.ctor = "default"]

\* Ok(e) around an evaluation e that may unwind.
OkOf(r) == IF r.kind = "panic" THEN r ELSE Ok(r.val)

\* lib.rs
Rosenbrock_cost(this, param) == OkOf(rosenbrock_2d(param, this.a, this.b))
Rosenbrock_gradient(this, param) ==
    OkOf(rosenbrock_2d_derivative(param, this.a, this.b))
Rosenbrock_hessian(this, param) ==
    LET t == rosenbrock_2d_hessian(param, this.a, this.b)
    IN IF t.kind = "panic" THEN t ELSE nested_2x2(t.val)

\* rosenbrock_vec.rs (Vec::to_vec copies the vector)
RosenbrockVec_cost(this, param) == OkOf(rosenbrock_2d(param, this.a, this.b))
RosenbrockVec_gradient(this, param) ==
    OkOf(rosenbrock_2d_derivative(param, this.a, this.b))
RosenbrockVec_hessian(this, param) ==
    LET t == rosenbrock_2d_hessian(param, this.a, this.b)
    IN IF t.kind = "panic" THEN t ELSE nested_2x2(t.val)

\* rosenbrock_ndarray.rs (param is an Array1)
RosenbrockND_cost(this, param) ==
    OkOf(rosenbrock_2d(to_vec(param), this.a, this.b))
RosenbrockND_gradient(this, param) ==
    LET g == rosenbrock_2d_derivative(to_vec(param), this.a, this.b)
    IN IF g.kind = "panic" THEN g ELSE Ok(from_vec(g.val))
RosenbrockND_hessian(this, param) ==
    LET h == rosenbrock_2d_hessian(to_vec(param), this.a, this.b)
    IN IF h.kind = "panic" THEN h ELSE from_shape_vec(2, 2, h.val)

\* bin/01-rosenbrock.rs: the cost is negated, the gradient and the Hessian
\* are the library's.
Maximize_cost(this, param) ==
    LET r == rosenbrock_2d(param, this.a, this.b)
    IN IF r.kind = "panic" THEN r ELSE Ok(-r.val)
Maximize_gradient(this, param) ==
    OkOf(rosenbrock_2d_derivative(param, this.a, this.b))
Maximize_hessian(this, param) ==
    LET t == rosenbrock_2d_hessian(param, this.a, this.b)
    IN IF t.kind = "panic" THEN t ELSE nested_2x2(t.val)

\* The matrix each struct builds from the flat buffer of second derivatives:
\* Array2::from_shape_vec((2, 2), h)? in rosenbrock_ndarray.rs, the nested
\* vec! of t[0] .. t[3] in the others.
hessian_from(this, t) ==
    IF this.kind = "RosenbrockND" THEN from_shape_vec(2, 2, t) ELSE nested_2x2(t)

\* The call op(param) on an objective; param is given as a Vec and handed to
\* RosenbrockND as the array of the same elements.
Evaluate(this, op, param) ==
    CASE this.kind = "Rosenbrock" ->
           (CASE op = "cost" -> Rosenbrock_cost(this, param)
              [] op = "gradient" -> Rosenbrock_gradient(this, param)
              [] op = "hessian" -> Rosenbrock_hessian(this, param))
      [] this.kind = "RosenbrockVec" ->
           (CASE op = "cost" -> RosenbrockVec_cost(this, param)
              [] op = "gradient" -> RosenbrockVec_gradient(this, param)
              [] op = "hessian" -> RosenbrockVec_hessian(this, param))
      [] this.kind = "RosenbrockND" ->
           (CASE op = "cost" -> RosenbrockND_cost(this, array(param))
              [] op = "gradient" -> RosenbrockND_gradient(this, array(param))
              [] op = "hessian" -> RosenbrockND_hessian(this, array(param)))
      [] this.kind = "Maximize" ->
           (CASE op = "cost" -> Maximize_cost(this, param)
              [] op = "gradient" -> Maximize_gradient(this, param)
              [] op = "hessian" -> Maximize_hessian(this, param))

\* ------------------------------------------------------------ anneal's f64
\* temp, in tenths; "huge" is any temp of 2^64 or more (+inf included), whose
\* floor does not fit u64; "nan" is NaN.
Finite(t) == [cls |-> "finite", tenths |-> t]
Huge == [cls |-> "huge", tenths |-> 0]
NaN == [cls |-> "nan", tenths |-> 0]

\* `temp.floor() as u64` where the cast does not saturate at u64::MAX: the
\* floor, with NaN and negative values cast to 0.
floor_as_u64(temp) ==
    IF temp.cls = "nan" \/ temp.tenths < 0 THEN 0 ELSE temp.tenths \div Tenths

\* `temp.floor() as u64 + 1`, the end of the loop's range.  For a huge temp
\* the cast saturates at u64::MAX and the addition overflows: a panic with
\* overflow checks (debug builds), a wrap to 0 without (release builds).
range_end_of(temp, checks) ==
    IF temp.cls = "huge"
    THEN IF checks THEN Panic("attempt to add with overflow") ELSE Val(0)
    ELSE Val(floor_as_u64(temp) + 1)

\* A thread that has called nothing yet.
NoCall == [op |-> "none", param |-> << >>, temp |-> NaN]

\* clamp without its upper limit.
clamp_lower_only(x, min, max) ==
    IF min > max
    THEN Panic("assertion failed: min <= max")
    ELSE Val(IF x < min THEN min ELSE x)

\* f64::clamp(min, max) asserts min <= max.
clamp(x, min, max) ==
    IF min > max
    THEN Panic("assertion failed: min <= max")
    ELSE Val(IF x < min THEN min ELSE IF x > max THEN max ELSE x)

\* The values Uniform::new_inclusive(-0.1, 0.1) samples, in tenths.
Deltas == {-1, 0, 1}

\* ------------------------------------------------------------------ inputs
\* Arguments the threads pass to anneal.
AnnealParams ==
    { array(<< >>), array(<<50, 49>>), array(<<51, -50>>) }
AnnealTemps == { Finite(-10), Finite(0), Finite(15), Huge }

\* The shared objective's constructions: the default, and bounds of two
\* lengths with a lower bound above its upper bound.
NDArgs ==
    { RosenbrockND_default,
      RosenbrockND_new(2, 1, array(<<50, 50>>), array(<<49>>)) }

\* Arguments of cost, gradient and hessian.
EvalParams == { <<1, 1>>, <<10, 5>>, <<0, 1>>, <<-1, 2>>, <<2, 4>>, <<1>>, <<1, 1, 1>> }
Ops == {"cost", "gradient", "hessian"}
\* Those the threads evaluate the shared objective at.
SharedEvalParams == { <<10, 5>>, <<1>> }

\* Flat buffers of up to MaxBuffer second derivatives.
BufferElems == {0, 1}
Buffers == UNION {[1..n -> BufferElems] : n \in 0..MaxBuffer}

\* a and b handed to the constructors.
As == {0, 1, 2}
Bs == {-1, 0, 1, 100}

\* The objectives a program can construct.
Problems ==
    {Rosenbrock_default, RosenbrockVec_default, RosenbrockND_default,
     Maximize_default}
    \cup {Rosenbrock_new(a, b) : a \in As, b \in Bs}
    \cup {RosenbrockVec_new(a, b) : a \in As, b \in Bs}
    \cup {RosenbrockND_new(a, b, RosenbrockND_default.lower_bound,
                           RosenbrockND_default.upper_bound) : a \in As, b \in Bs}

\* ------------------------------------------------------------------- state
VARIABLES
    self,             \* the shared RosenbrockND (a, b, lower_bound, upper_bound)
    mutex,            \* the Mutex of self.rng: its holder (0: free) and poison flag
    rng,              \* the generator's samples so far, each tagged <<thread, call>>
    pc,               \* where each thread is
    call,             \* each thread's current or last call: op, param, temp
    param_n,          \* anneal's working copy
    range_end,        \* the end of anneal's range 0..(floor(temp) as u64 + 1)
    i,                \* iterations of anneal's loop completed
    idx,              \* the sampled index
    out,              \* what the thread's last call returned
    calls,            \* calls each thread has started
    problem,          \* the objective under evaluation (SpecEval)
    res,              \* its last evaluation: op, param, out (SpecEval)
    instances,        \* the RosenbrockND values of a program (SpecClone)
    generators        \* the draws made from each generator so far (SpecClone)

vars == <<self, mutex, rng, pc, call, param_n, range_end, i,
          idx, out, calls, problem, res, instances, generators>>
clones == <<instances, generators>>
shared == <<self, mutex, rng>>
locals == <<pc, call, param_n, range_end, i, idx, out, calls>>

\* Calls started so far, by all threads.
RECURSIVE SumCalls(_)
SumCalls(T) ==
    IF T = {} THEN 0
    ELSE LET t == CHOOSE u \in T : TRUE IN calls[t] + SumCalls(T \ {t})
Started == SumCalls(Threads)

Init ==
    /\ self = None
    /\ mutex = [holder |-> 0, poisoned |-> FALSE]
    /\ rng = << >>
    /\ pc = [t \in Threads |-> "idle"]
    /\ call = [t \in Threads |-> NoCall]
    /\ param_n = [t \in Threads |-> << >>]
    /\ range_end = [t \in Threads |-> 0]
    /\ i = [t \in Threads |-> 0]
    /\ idx = [t \in Threads |-> 0]
    /\ out = [t \in Threads |-> None]
    /\ calls = [t \in Threads |-> 0]
    /\ problem = None
    /\ res = None
    /\ instances = << >>
    /\ generators = << >>

\* The shared objective is constructed, by RosenbrockND::default() or by
\* RosenbrockND::new(a, b, lower_bound, upper_bound): the arguments as they
\* are, and a fresh generator behind a fresh mutex.
New(this) ==
    /\ self = None
    /\ self' = this
    /\ mutex' = [holder |-> 0, poisoned |-> FALSE]
    /\ rng' = << >>
    /\ UNCHANGED <<locals, problem, res, clones>>

\* The thread unwinds out of its call.  A MutexGuard dropped while the thread
\* panics poisons the mutex and unlocks it.
Unwind(t, p) ==
    /\ pc' = [pc EXCEPT ![t] = "panicked"]
    /\ out' = [out EXCEPT ![t] = p]
    /\ mutex' = IF mutex.holder = t
                THEN [holder |-> 0, poisoned |-> TRUE]
                ELSE mutex

\* An evaluation that draws a sample from the generator.
Eval_sampling(t, op, param) ==
    /\ self # None
    /\ pc[t] = "idle"
    /\ Started < MaxCalls
    /\ calls' = [calls EXCEPT ![t] = @ + 1]
    /\ call' = [call EXCEPT ![t] = [op |-> op, param |-> param, temp |-> NaN]]
    /\ rng' = Append(rng, <<t, calls[t] + 1>>)
    /\ LET r == Evaluate(self, op, param)
       IN IF r.kind = "panic"
          THEN Unwind(t, r)
          ELSE /\ out' = [out EXCEPT ![t] = r]
               /\ UNCHANGED <<pc, mutex>>
    /\ UNCHANGED <<self, param_n, range_end, i, idx,
                   problem, res, clones>>

\* cost, gradient or hessian of the shared objective.
Eval(t, op, param) ==
    /\ self # None
    /\ pc[t] = "idle"
    /\ Started < MaxCalls
    /\ calls' = [calls EXCEPT ![t] = @ + 1]
    /\ call' = [call EXCEPT ![t] = [op |-> op, param |-> param, temp |-> NaN]]
    /\ LET r == Evaluate(self, op, param)
       IN IF r.kind = "panic"
          THEN Unwind(t, r)
          ELSE /\ out' = [out EXCEPT ![t] = r]
               /\ UNCHANGED <<pc, mutex>>
    /\ UNCHANGED <<self, rng, param_n, range_end, i, idx,
                   problem, res, clones>>

\* anneal, line 83: let mut param_n = param.clone();
Anneal_clone(t, param, temp) ==
    /\ self # None
    /\ pc[t] = "idle"
    /\ Started < MaxCalls
    /\ calls' = [calls EXCEPT ![t] = @ + 1]
    /\ call' = [call EXCEPT ![t] = [op |-> "anneal", param |-> param, temp |-> temp]]
    /\ param_n' = [param_n EXCEPT ![t] = param]
    /\ i' = [i EXCEPT ![t] = 0]
    /\ out' = [out EXCEPT ![t] = None]
    /\ pc' = [pc EXCEPT ![t] = "lock"]
    /\ UNCHANGED <<shared, range_end, idx, problem, res, clones>>

\* A lock that does not wait for the holder to release the mutex.
Anneal_lock_no_wait(t) ==
    /\ pc[t] = "lock"
    /\ IF mutex.poisoned
       THEN Unwind(t, Panic("PoisonError"))
       ELSE /\ mutex' = [mutex EXCEPT !.holder = t]
            /\ pc' = [pc EXCEPT ![t] = "range"]
            /\ UNCHANGED out
    /\ UNCHANGED <<self, rng, call, param_n, range_end, i, idx,
                   calls, problem, res, clones>>

\* line 84: let mut rng = self.rng.lock().unwrap();  lock() waits for the
\* mutex; on a poisoned mutex it returns Err and unwrap panics, dropping the
\* guard the error carries.
Anneal_lock(t) ==
    /\ pc[t] = "lock"
    /\ mutex.holder = 0
    /\ IF mutex.poisoned
       THEN Unwind(t, Panic("PoisonError"))
       ELSE /\ mutex' = [mutex EXCEPT !.holder = t]
            /\ pc' = [pc EXCEPT ![t] = "range"]
            /\ UNCHANGED out
    /\ UNCHANGED <<self, rng, call, param_n, range_end, i, idx,
                   calls, problem, res, clones>>

\* lines 85-87: Uniform::from(0..param.len()) panics on an empty range; then
\* the loop's range 0..(temp.floor() as u64 + 1) is built, by a build with or
\* without overflow checks.
Anneal_range(t) ==
    /\ pc[t] = "range"
    /\ \E overflow_checks \in BOOLEAN :
       LET n == range_end_of(call[t].temp, overflow_checks)
       IN IF len(call[t].param) = 0
          THEN /\ Unwind(t, Panic("Uniform::new called with low >= high"))
               /\ UNCHANGED range_end
          ELSE IF n.kind = "panic"
          THEN /\ Unwind(t, n)
               /\ UNCHANGED range_end
          ELSE /\ range_end' = [range_end EXCEPT ![t] = n.val]
               /\ pc' = [pc EXCEPT ![t] = "loop"]
               /\ UNCHANGED <<out, mutex>>
    /\ UNCHANGED <<self, rng, call, param_n, i, idx, calls,
                   problem, res, clones>>

\* line 90: let idx = rng.sample(distr);
Anneal_sample_idx(t) ==
    /\ pc[t] = "loop"
    /\ i[t] < range_end[t]
    /\ \E k \in 0..(len(call[t].param) - 1) :
          idx' = [idx EXCEPT ![t] = k]
    /\ rng' = Append(rng, <<t, calls[t]>>)
    /\ pc' = [pc EXCEPT ![t] = "val"]
    /\ UNCHANGED <<self, mutex, call, param_n, range_end, i,
                   out, calls, problem, res, clones>>

\* lines 93-99: sample val, param_n[idx] += val, then clamp param_n[idx]
\* between self.lower_bound[idx] and self.upper_bound[idx].
Anneal_modify(t) ==
    /\ pc[t] = "val"
    /\ rng' = Append(rng, <<t, calls[t]>>)
    /\ \E val \in Deltas :
          LET k == idx[t]
              moved == param_n[t][k] + val
          IN IF k \notin DOMAIN self.lower_bound \/ k \notin DOMAIN self.upper_bound
             THEN /\ Unwind(t, Panic("index out of bounds"))
                  /\ param_n' = [param_n EXCEPT ![t][k] = moved]
                  /\ UNCHANGED i
             ELSE LET c == clamp(moved, self.lower_bound[k], self.upper_bound[k])
                  IN IF c.kind = "panic"
                     THEN /\ Unwind(t, c)
                          /\ param_n' = [param_n EXCEPT ![t][k] = moved]
                          /\ UNCHANGED i
                     ELSE /\ param_n' = [param_n EXCEPT ![t][k] = c.val]
                          /\ i' = [i EXCEPT ![t] = @ + 1]
                          /\ pc' = [pc EXCEPT ![t] = "loop"]
                          /\ UNCHANGED <<out, mutex>>
    /\ idx' = [idx EXCEPT ![t] = 0]
    /\ UNCHANGED <<self, call, range_end, calls, problem, res, clones>>

\* lines 100-102: the loop is over; Ok(param_n), and the guard is dropped.
Anneal_return(t) ==
    /\ pc[t] = "loop"
    /\ i[t] >= range_end[t]
    /\ out' = [out EXCEPT ![t] = Ok(param_n[t])]
    /\ mutex' = [mutex EXCEPT !.holder = 0]
    /\ pc' = [pc EXCEPT ![t] = "idle"]
    /\ UNCHANGED <<self, rng, call, param_n, range_end, i, idx,
                   calls, problem, res, clones>>

Next ==
    \/ \E this \in NDArgs : New(this)
    \/ \E t \in Threads, op \in Ops, param \in SharedEvalParams :
          Eval(t, op, param)
    \/ \E t \in Threads, param \in AnnealParams, temp \in AnnealTemps :
          Anneal_clone(t, param, temp)
    \/ \E t \in Threads : Anneal_lock(t)
    \/ \E t \in Threads : Anneal_range(t)
    \/ \E t \in Threads : Anneal_sample_idx(t)
    \/ \E t \in Threads : Anneal_modify(t)
    \/ \E t \in Threads : Anneal_return(t)

Spec == Init /\ [][Next]_vars

\* ------------------------------------------------- evaluation of objectives
\* One objective of any of the four structs, evaluated at the inputs.
InitEval ==
    /\ self = None
    /\ mutex = [holder |-> 0, poisoned |-> FALSE]
    /\ rng = << >>
    /\ pc = [t \in Threads |-> "idle"]
    /\ call = [t \in Threads |-> NoCall]
    /\ param_n = [t \in Threads |-> << >>]
    /\ range_end = [t \in Threads |-> 0]
    /\ i = [t \in Threads |-> 0]
    /\ idx = [t \in Threads |-> 0]
    /\ out = [t \in Threads |-> None]
    /\ calls = [t \in Threads |-> 0]
    /\ problem \in Problems
    /\ res = None
    /\ instances = << >>
    /\ generators = << >>

Call(op, param) ==
    /\ res' = [op |-> op, param |-> param, out |-> Evaluate(problem, op, param)]
    /\ UNCHANGED <<shared, locals, problem, clones>>

NextEval == \E op \in Ops, param \in EvalParams : Call(op, param)

SpecEval == InitEval /\ [][NextEval]_vars

\* ------------------------------------------- the Hessian from its buffer
\* The construction of the matrix, on buffers of every length.
FromBuffer(t) ==
    /\ res' = [op |-> "from_buffer", param |-> t, out |-> hessian_from(problem, t)]
    /\ UNCHANGED <<shared, locals, problem, clones>>

NextShape ==
    \/ \E param \in EvalParams : Call("hessian", param)
    \/ \E t \in Buffers : FromBuffer(t)

SpecShape == InitEval /\ [][NextShape]_vars

\* ------------------------------------------------- instances and clones
\* Several RosenbrockND values: each instance is its fields, with the field
\* rng an Arc, that is a reference to one of the generators; anneals counts
\* the anneal calls made on the instance.
\* Temperatures of the calls: SimulatedAnnealing's temp falls from its
\* initial value towards 0.
CloneTemps == { Finite(0), Finite(15) }

\* RosenbrockND::default(): new() puts a fresh generator behind a fresh Arc.
Default ==
    /\ Len(instances) < MaxInstances
    /\ generators' = Append(generators, 0)
    /\ instances' = Append(instances, [this |-> RosenbrockND_default,
                                       rng |-> Len(generators) + 1,
                                       anneals |-> 0])
    /\ UNCHANGED <<shared, locals, problem, res>>

\* #[derive(Clone)]: every field is cloned, and the clone of an Arc is a
\* reference to the same Mutex and generator.
Clone(k) ==
    /\ Len(instances) < MaxInstances
    /\ instances' = Append(instances, [this |-> instances[k].this,
                                       rng |-> instances[k].rng,
                                       anneals |-> 0])
    /\ UNCHANGED <<shared, locals, problem, res, generators>>

\* A whole anneal call on instance k with a non-empty param: under the lock
\* of the instance's generator it draws two samples in each of its
\* floor(temp) + 1 steps.
Anneal(k, temp) ==
    LET g == instances[k].rng
        draws == 2 * range_end_of(temp, TRUE).val
    IN /\ generators[g] + draws <= MaxDraws
       /\ generators' = [generators EXCEPT ![g] = @ + draws]
       /\ instances' = [instances EXCEPT ![k].anneals = @ + 1]
       /\ UNCHANGED <<shared, locals, problem, res>>

NextClone ==
    \/ Default
    \/ \E k \in DOMAIN instances : Clone(k)
    \/ \E k \in DOMAIN instances, temp \in CloneTemps : Anneal(k, temp)

InitClone == Init

SpecClone == InitClone /\ [][NextClone]_vars

\* --------------------------------------------------- anneal's step count
\* temp of every class: negative, zero and positive finite values, NaN, and
\* the values of 2^64 and more.
StepTemps == {Finite(t) : t \in (-MaxTemp)..MaxTemp} \cup {NaN, Huge}

\* line 87: the end of the range 0..(temp.floor() as u64 + 1), in a build
\* with or without overflow checks.
RangeEnd(temp, overflow_checks) ==
    /\ res' = [op |-> "range_end", temp |-> temp,
               overflow_checks |-> overflow_checks,
               out |-> range_end_of(temp, overflow_checks)]
    /\ UNCHANGED <<shared, locals, problem, clones>>

NextSteps ==
    \E temp \in StepTemps, overflow_checks \in BOOLEAN :
        RangeEnd(temp, overflow_checks)

InitSteps == Init

SpecSteps == InitSteps /\ [][NextSteps]_vars

\* ------------------------------------------------------------------ claims
\* param is feasible: every component has its two bounds and lies between them.
Feasible(param) ==
    \A k \in DOMAIN param :
        /\ k \in DOMAIN self.lower_bound
        /\ k \in DOMAIN self.upper_bound
        /\ self.lower_bound[k] <= param[k]
        /\ param[k] <= self.upper_bound[k]

\* temp >= 0.
NonNegative(temp) ==
    temp.cls = "huge" \/ (temp.cls = "finite" /\ temp.tenths >= 0)

\* The thread's last call was anneal and it returned Ok.
Annealed(t) == call[t].op = "anneal" /\ out[t].kind = "Ok"

\* The samples the thread's current call has drawn.
Drawn(t) == Cardinality({j \in 1..Len(rng) : rng[j] = <<t, calls[t]>>})

\* C1: anneal on a feasible param with temp >= 0 returns a parameter of the
\* length of param, every component of which lies within its bounds.
C1_AnnealStaysInBounds ==
    \A t \in Threads :
        (Annealed(t) /\ Feasible(call[t].param) /\ NonNegative(call[t].temp))
        => /\ DOMAIN out[t].val = DOMAIN call[t].param
           /\ Feasible(out[t].val)

\* C1 witness: a call on the feasible [5.0, 4.9] at temp 1.5 has returned
\* [5.0, 5.0]: both components moved up, the first one clamped at its bound.
C1_Witness ==
    \E t \in Threads :
        /\ Annealed(t)
        /\ self = RosenbrockND_default
        /\ call[t].param = array(<<50, 49>>)
        /\ call[t].temp = Finite(15)
        /\ out[t].val = array(<<50, 50>>)

\* C2 (as claimed): a call with temp >= 0 that returns has performed exactly
\* floor(temp) + 1 steps (at least the one step of temp = 0), each of two
\* samples.
C2_StepsAreFloorTempPlusOne ==
    \A t \in Threads :
        (Annealed(t) /\ NonNegative(call[t].temp))
        => /\ i[t] >= 1
           /\ call[t].temp.cls = "finite" => i[t] = call[t].temp.tenths \div Tenths + 1
           /\ Drawn(t) = 2 * i[t]

\* The part of C2 that holds: when floor(temp) fits u64 below its maximum,
\* the returned call has performed floor(temp) + 1 steps of two samples
\* (1 step at temp 0, 2 steps at temp 1.5).
C2_StepsWhenInRange ==
    \A t \in Threads :
        (Annealed(t) /\ call[t].temp.cls = "finite" /\ call[t].temp.tenths >= 0)
        => /\ i[t] = call[t].temp.tenths \div Tenths + 1
           /\ Drawn(t) = 2 * i[t]

\* C3: the draws of concurrent calls do not interleave: a thread inside
\* lines 85-100 holds the generator's lock, and the sequence of all draws is a
\* concatenation of whole per-call sequences.
C3_DrawsAreNotInterleaved ==
    /\ \A t \in Threads : pc[t] \in {"range", "loop", "val"} => mutex.holder = t
    /\ \A j \in 1..Len(rng) : \A k \in j..Len(rng) : \A l \in k..Len(rng) :
           rng[j] = rng[l] => rng[k] = rng[j]

\* C3 witness: one thread is in the middle of its steps, having drawn, while
\* the other waits for the lock with its own call.
C3_Witness ==
    \E t \in Threads, u \in Threads :
        /\ t # u
        /\ pc[t] = "val" /\ i[t] >= 1
        /\ pc[u] = "lock"

\* C4 (as claimed): the lock is released on every exit path, and an anneal
\* call that cannot fail by itself (a non-empty feasible param, a temp whose
\* step count fits) completes normally whatever calls failed before it.
C4_LockUsableAfterFailure ==
    /\ \A t \in Threads : pc[t] \in {"idle", "lock", "panicked"} => mutex.holder # t
    /\ \A t \in Threads :
          (/\ call[t].op = "anneal"
           /\ len(call[t].param) > 0
           /\ Feasible(call[t].param)
           /\ call[t].temp.cls = "finite")
          => out[t].kind # "panic"

\* C5: a cost, gradient or hessian call takes no lock and changes neither the
\* generator nor the objective, whatever the other threads are in the middle
\* of, and its result is that of a fresh objective with the same a and b.
C5_EvaluationIsPure ==
    [][\A t \in Threads :
          (calls'[t] # calls[t] /\ call'[t].op \in Ops)
          => /\ UNCHANGED <<self, mutex, rng>>
             /\ out'[t] = Evaluate(RosenbrockND_new(self.a, self.b, << >>, << >>),
                                   call'[t].op, call'[t].param)]_vars

\* C5 witness: a thread has evaluated the cost while the other was in the
\* middle of an anneal call, holding the lock after its first sample.
C5_Witness ==
    \E t \in Threads, u \in Threads :
        /\ t # u
        /\ call[t].op = "cost" /\ out[t] = Ok(902581)
        /\ pc[u] = "val" /\ mutex.holder = u /\ Len(rng) = 1

\* C6 (as claimed): cost, gradient and hessian at a parameter whose length is
\* not 2 return the InvalidInput error.
C6_WrongLengthIsInvalidInput ==
    (res # None /\ Len(res.param) # 2) => res.out = Err("InvalidInput")

\* C7 (as claimed): every constructed RosenbrockND has bounds of one length
\* with lower[i] <= upper[i], and no anneal call fails on the bounds.
C7_BoundsAreValidated ==
    /\ self # None =>
          /\ DOMAIN self.lower_bound = DOMAIN self.upper_bound
          /\ \A k \in DOMAIN self.lower_bound :
                 self.lower_bound[k] <= self.upper_bound[k]
    /\ \A t \in Threads :
          /\ out[t] # Panic("index out of bounds")
          /\ out[t] # Panic("assertion failed: min <= max")

\* The negation of a cost, a gradient or a nested 2x2 Hessian.
Negated(op, v) ==
    CASE op = "cost" -> -v
      [] op = "gradient" -> [k \in DOMAIN v |-> -v[k]]
      [] op = "hessian" -> [r \in DOMAIN v |-> [c \in DOMAIN v[r] |-> -v[r][c]]]

\* C8 (as claimed): the cost, gradient and Hessian of the maximization
\* variant are the negations of those of Rosenbrock with the same a and b.
C8_MaximizeNegatesAll ==
    (res # None /\ problem.kind = "Maximize" /\ Len(res.param) = 2)
    => res.out = Ok(Negated(res.op,
                            Evaluate(Rosenbrock_new(problem.a, problem.b),
                                     res.op, res.param).val))

\* C9 (as claimed): the cost of every constructed objective at a parameter of
\* length 2 is >= 0, and is 0 exactly at [a, a^2].
C9_CostIsNonNegative ==
    (/\ res # None
     /\ problem.kind \in {"Rosenbrock", "RosenbrockVec", "RosenbrockND"}
     /\ res.op = "cost"
     /\ Len(res.param) = 2)
    => /\ res.out.val >= 0
       /\ res.out.val = 0 <=> res.param = <<problem.a, problem.a^2>>

\* C10: Rosenbrock, RosenbrockVec and RosenbrockND return the same cost,
\* (a - x)^2 + b (y - x^2)^2; the default objective has a = 1 and b = 100 and
\* costs 0 at [1, 1] and 902581 at [10, 5].
C10_SameCostInAllRepresentations ==
    (/\ res # None
     /\ problem.kind \in {"Rosenbrock", "RosenbrockVec", "RosenbrockND"}
     /\ res.op = "cost"
     /\ Len(res.param) = 2)
    => LET x == res.param[1]
           y == res.param[2]
       IN /\ res.out = Ok((problem.a - x)^2 + problem.b * (y - x * x) * (y - x * x))
          /\ problem.ctor = "default" =>
                /\ problem.a = 1 /\ problem.b = 100
                /\ res.param = <<1, 1>> => res.out = Ok(0)
                /\ res.param = <<10, 5>> => res.out = Ok(902581)

\* C10 witness: the default RosenbrockND has returned 902581 at [10, 5].
C10_Witness ==
    /\ problem = RosenbrockND_default
    /\ res # None
    /\ res.op = "cost" /\ res.param = <<10, 5>> /\ res.out = Ok(902581)

\* H is a 2x2 matrix of the objective's representation: an Array2 of shape
\* (2, 2) for RosenbrockND, two Vecs of two elements for the others.
Is2x2(this, H) ==
    IF this.kind = "RosenbrockND"
    THEN DOMAIN H = 0..1 /\ \A r \in 0..1 : DOMAIN H[r] = 0..1
    ELSE DOMAIN H = 1..2 /\ \A r \in 1..2 : DOMAIN H[r] = 1..2

\* H[r][c], with the source's indices 0 and 1.
Entry(this, H, r, c) ==
    IF this.kind = "RosenbrockND" THEN H[r][c] ELSE H[r + 1][c + 1]

\* C11: for every objective and every param of length 2, hessian(param) is
\* Ok(H) with H a 2x2 matrix, H[r][c] being element 2 r + c of the flat buffer
\* of the four second derivatives (row order), and H[0][1] = H[1][0].
C11_HessianIsSymmetric2x2 ==
    (res # None /\ res.op = "hessian" /\ Len(res.param) = 2)
    => /\ res.out.kind = "Ok"
       /\ Is2x2(problem, res.out.val)
       /\ LET h == rosenbrock_2d_hessian(res.param, problem.a, problem.b).val
          IN /\ Len(h) = 4
             /\ \A r \in 0..1, c \in 0..1 :
                    Entry(problem, res.out.val, r, c) = h[2 * r + c + 1]
       /\ Entry(problem, res.out.val, 0, 1) = Entry(problem, res.out.val, 1, 0)

\* C11 witness: the default RosenbrockVec has returned the Hessian
\* [[118002, -4000], [-4000, 200]] at [10, 5], or the default RosenbrockND
\* the Array2 of the same elements.
C11_Witness ==
    /\ res # None
    /\ res.op = "hessian" /\ res.param = <<10, 5>>
    /\ problem \in {RosenbrockVec_default, RosenbrockND_default}
    /\ Entry(problem, res.out.val, 0, 0) = 118002
    /\ Entry(problem, res.out.val, 0, 1) = -4000
    /\ Entry(problem, res.out.val, 1, 0) = -4000
    /\ Entry(problem, res.out.val, 1, 1) = 200

\* C12 (as claimed): in every representation hessian does not panic, and
\* the construction of the matrix from a flat buffer whose length is not
\* 2 * 2 returns the ShapeError, building no matrix.
C12_ShapeMismatchIsShapeError ==
    res # None =>
       /\ res.op = "hessian" => res.out.kind # "panic"
       /\ (res.op = "from_buffer" /\ Len(res.param) # 2 * 2)
          => res.out = Err("ShapeError")

\* The part of C12 that holds: Array2::from_shape_vec of RosenbrockND returns
\* the ShapeError on every buffer that does not hold 2 * 2 elements.
C12_ArrayShapeMismatch ==
    (/\ res # None
     /\ problem.kind = "RosenbrockND"
     /\ res.op = "from_buffer"
     /\ Len(res.param) # 2 * 2)
    => res.out = Err("ShapeError")

\* C13 (as claimed), in the form a finite run refutes: an anneal call with a
\* finite temp >= 0 does not end without returning; past the lock it holds
\* the mutex, so waits nowhere else; it draws at most 2 (floor(temp) + 1)
\* samples, and when it has returned it has performed floor(temp) + 1 steps.
C13_AnnealCallReturns ==
    \A t \in Threads :
        (/\ call[t].op = "anneal"
         /\ call[t].temp.cls = "finite"
         /\ call[t].temp.tenths >= 0)
        => LET steps == call[t].temp.tenths \div Tenths + 1
           IN /\ pc[t] # "panicked"
              /\ pc[t] \in {"range", "loop", "val"} => mutex.holder = t
              /\ Drawn(t) <= 2 * steps
              /\ pc[t] = "idle" => (out[t].kind = "Ok" /\ i[t] = steps)

\* The part of C13 that holds: the same, of the calls that do not panic.
C13_BoundedHold ==
    \A t \in Threads :
        (/\ call[t].op = "anneal"
         /\ call[t].temp.cls = "finite"
         /\ call[t].temp.tenths >= 0
         /\ pc[t] # "panicked")
        => LET steps == call[t].temp.tenths \div Tenths + 1
           IN /\ pc[t] \in {"range", "loop", "val"} => mutex.holder = t
              /\ Drawn(t) <= 2 * steps
              /\ pc[t] = "idle" => (out[t].kind = "Ok" /\ i[t] = steps)

\* The state of the generator instance k sees.
Seen(k) == generators[instances[k].rng]

\* C14 (as claimed): an anneal call on one instance does not advance the
\* generator any other instance sees, a clone included, and the generator an
\* instance sees changes only in that instance's own anneal calls.
C14_GeneratorIsExclusivelyOwned ==
    [][\A k \in DOMAIN instances :
          /\ generators'[instances[k].rng] # Seen(k)
             => instances'[k].anneals # instances[k].anneals
          /\ instances'[k].anneals # instances[k].anneals
             => \A j \in DOMAIN instances \ {k} :
                    generators'[instances[j].rng] = Seen(j)]_vars

\* The part of C14 that holds: instances constructed apart, neither a clone
\* of the other nor clones of one instance, have generators of their own.
C14_ConstructedApart ==
    [][\A k \in DOMAIN instances :
          instances'[k].anneals # instances[k].anneals
          => \A j \in DOMAIN instances :
                 instances[j].rng # instances[k].rng
                 => generators'[instances[j].rng] = Seen(j)]_vars

\* C15 (as claimed): for every temp, negative values, NaN and values of 2^64
\* and more included, floor(temp) as u64 + 1 does not overflow and is at
\* least 1, so that the loop runs a positive number of steps.
C15_StepCountNeverOverflows ==
    (res # None /\ res.op = "range_end")
    => /\ res.out.kind = "val"
       /\ res.out.val >= 1

\* The part of C15 that holds: for NaN and every temp below 2^64 the step
\* count is computed without overflow; it is 1 for NaN and for every temp
\* below 1, the negative ones included, and floor(temp) + 1 otherwise.
C15_StepCountBelowTwoTo64 ==
    (res # None /\ res.op = "range_end" /\ res.temp.cls # "huge")
    => /\ res.out.kind = "val"
       /\ res.out.val >= 1
       /\ (res.temp.cls = "nan" \/ res.temp.tenths < Tenths) => res.out.val = 1
       /\ (res.temp.cls = "finite" /\ res.temp.tenths >= 0)
          => res.out.val = res.temp.tenths \div Tenths + 1

====
